---- MODULE Spec2Model ----
(***************************************************************************)
(* Model of hw/fsi/cfam.c: the IBM Common FRU Access Macro (CFAM) hub.     *)
(*                                                                         *)
(* A 32-bit register word is the pair <<hi, lo>> of its two 16-bit halves  *)
(* (0xc0de0000 is <<49374, 0>>), so that every word of the program is      *)
(* represented exactly.                                                    *)
(***************************************************************************)
EXTENDS Integers, Sequences, FiniteSets, TLC

\* phase          "init" (instance_init done), "construct" (realized, the
\*                machine still being built), "running", or "failed"
\* children       cfam->lbus.bus.children with each scratchpad's s->reg
\* mrSubregions   the subregions of cfam->mr, in adding order
\* lbusSubregions the engine windows mapped into cfam->lbus.mr
\* lastOp         the last access: where it went, its data, what it returned
\* prevOp         of the access before lastOp: whether it was the break
\*                write at 0x00, and whether a register was non-zero before it
\* lastWritten    per device, the data of the last write to its offset 0
\*                since the last bus reset (0 when there is none)
VARIABLES phase, children, mrSubregions, lbusSubregions, lastOp, prevOp, lastWritten

vars == <<phase, children, mrSubregions, lbusSubregions, lastOp, prevOp, lastWritten>>

(***************************************************************************)
(* Bounds of the model.                                                    *)
(***************************************************************************)
\* engines on the local bus, the bootstrap scratchpad included
MaxEngines == 2
\* the small data words a bus master writes are <<0, 0>> .. <<0, MaxData>>
MaxData == 1

(***************************************************************************)
(* 32-bit words.                                                           *)
(***************************************************************************)
RECURSIVE Or16(_, _)
\* bitwise OR of two 16-bit halves
Or16(a, b) ==
    IF a = 0 THEN b
    ELSE IF b = 0 THEN a
    ELSE (IF (a % 2 = 1) \/ (b % 2 = 1) THEN 1 ELSE 0) + 2 * Or16(a \div 2, b \div 2)

\* the C operator | on two 32-bit words
Or32(x, y) == <<Or16(x[1], y[1]), Or16(x[2], y[2])>>

\* a small unsigned C constant as a 32-bit word
Lo(n) == <<0, n>>

ZERO == <<0, 0>>

\* BE_BIT(x): bit x in big-endian numbering of a 32-bit word, i.e. 1 << (31 - x)
BE_BIT(x) ==
    IF 31 - x >= 16 THEN <<2 ^ (31 - x - 16), 0>> ELSE <<0, 2 ^ (31 - x)>>

(***************************************************************************)
(* Constants of cfam.c.                                                    *)
(***************************************************************************)
ENGINE_CONFIG_NEXT == BE_BIT(0)
ENGINE_CONFIG_TYPE_PEEK == Lo(2 * 16)
ENGINE_CONFIG_TYPE_FSI == Lo(3 * 16)
ENGINE_CONFIG_TYPE_SCRATCHPAD == Lo(6 * 16)

TO_REG(x) == x \div 4

CFAM_ENGINE_CONFIG == TO_REG(4)

CFAM_CONFIG_CHIP_ID == TO_REG(0)
\* 0xc0022d15
CFAM_CONFIG_CHIP_ID_P9 == <<49154, 11541>>
\* 0xc0de0000
CFAM_CONFIG_CHIP_ID_BREAK == <<49374, 0>>

\* the descriptor returned at 0x04: valid | slots | version | type | crc
PeekConfig ==
    Or32(ENGINE_CONFIG_NEXT, Or32(<<1, 0>>, Or32(Lo(4096),
         Or32(ENGINE_CONFIG_TYPE_PEEK, Lo(12)))))

\* the descriptor returned at 0x08: valid | slots | version | type | crc
FsiConfig ==
    Or32(ENGINE_CONFIG_NEXT, Or32(<<1, 0>>, Or32(Lo(20480),
         Or32(ENGINE_CONFIG_TYPE_FSI, Lo(10)))))

\* the scratchpad descriptor without ENGINE_CONFIG_NEXT
ScratchpadConfig_NoNext ==
    Or32(<<1, 0>>, Or32(Lo(4096), Or32(ENGINE_CONFIG_TYPE_SCRATCHPAD, Lo(7))))

\* ldc->config of TYPE_FSI_SCRATCHPAD, set once in class_init
ScratchpadConfig ==
    Or32(ENGINE_CONFIG_NEXT, Or32(<<1, 0>>, Or32(Lo(4096),
         Or32(ENGINE_CONFIG_TYPE_SCRATCHPAD, Lo(7)))))

\* size of the CFAM address space: 2 * 1024 * 1024
CfamSize == 2 * 1024 * 1024
\* size of cfam->config_iomem (0x400)
ConfigSize == 1024
\* size of a scratchpad's iomem (0x400)
ScratchpadSize == 1024
\* offsets of the three subregions of cfam->mr (0, 0x800, 0xc00)
ConfigBase == 0
SlaveBase == 2048
LBusBase == 3072
\* offset of the scratchpad's iomem inside cfam->lbus.mr
ScratchpadLBusOffset == 0
\* first engine slot of the config table (0xc)
EngineTableBase == 12
\* cfam_config_ops: valid and impl access sizes are both exactly 4
ConfigAccessSize == 4

\* slave->iomem and cfam->lbus.mr are initialised outside cfam.c; their
\* widths are the W and X of the address map (0x400 and 1 MiB here)
SlaveSize == 1024
LBusSize == 1048576

(***************************************************************************)
(* Inputs.                                                                 *)
(***************************************************************************)
\* data words of a write
Data == {Lo(k) : k \in 0..MaxData} \cup {CFAM_CONFIG_CHIP_ID_BREAK}

\* 4-byte-aligned offsets of the Configuration Region: the fixed words, every
\* engine slot, the end marker, two slots beyond it, and the last word
ConfigAddrs == {4 * k : k \in 0..(MaxEngines + 5)} \cup {ConfigSize - 4}

\* offsets inside a scratchpad's window
ScratchpadAddrs == {0, 1, 4, ScratchpadSize - 4}

\* offsets of the CFAM address space
CfamOffsets ==
    ConfigAddrs
    \cup {ConfigSize, SlaveBase - 4, SlaveBase, SlaveBase + SlaveSize - 4}
    \cup {LBusBase + a : a \in ScratchpadAddrs}
    \cup {LBusBase + ScratchpadSize, LBusBase + LBusSize - 4,
          LBusBase + LBusSize, CfamSize - 4}

(***************************************************************************)
(* The local bus: cfam->lbus.bus.children, head first.  A child is         *)
(* [id, reg]: id is the device (0 is cfam->scratchpad), reg its s->reg.    *)
(***************************************************************************)
Engine(id, reg) == [id |-> id, reg |-> reg]

Dirty(kids) == \E k \in 1..Len(kids) : kids[k].reg # ZERO

\* FSI_LBUS_DEVICE_GET_CLASS(dev)->config: every device of this file is a
\* TYPE_FSI_SCRATCHPAD
ClassConfig(kid) == ScratchpadConfig

\* qdev attach of one more engine to the bus
BusAddChild(kids, kid) == Append(kids, kid)

(***************************************************************************)
(* fsi_scratchpad_read / fsi_scratchpad_write / fsi_scratchpad_reset       *)
(***************************************************************************)
\* fsi_scratchpad_read without the test of the offset
fsi_scratchpad_read_AnyAddr(s, addr) == s.reg

fsi_scratchpad_read(s, addr) == IF addr # 0 THEN ZERO ELSE s.reg

\* a read that clears the register it returned
fsi_scratchpad_read_state_Clear(s, addr) ==
    IF addr # 0 THEN s ELSE [s EXCEPT !.reg = ZERO]

\* the scratchpad as fsi_scratchpad_read leaves it: it assigns nothing
fsi_scratchpad_read_state(s, addr) == s

\* fsi_scratchpad_write without the test of the offset
fsi_scratchpad_write_AnyAddr(s, addr, data) == [s EXCEPT !.reg = data]

fsi_scratchpad_write(s, addr, data) ==
    IF addr # 0 THEN s ELSE [s EXCEPT !.reg = data]

\* fsi_scratchpad_reset that leaves the register alone
fsi_scratchpad_reset_Noop(s) == s

\* fsi_scratchpad_reset that flips the register between zero and one
fsi_scratchpad_reset_Toggle(s) ==
    [s EXCEPT !.reg = IF s.reg = ZERO THEN Lo(1) ELSE ZERO]

fsi_scratchpad_reset(s) == [s EXCEPT !.reg = ZERO]

\* bus_cold_reset(BUS(&cfam->lbus)): dc->reset of every child of the bus
bus_cold_reset(kids) == [k \in 1..Len(kids) |-> fsi_scratchpad_reset(kids[k])]

(***************************************************************************)
(* fsi_cfam_config_read                                                    *)
(***************************************************************************)
NoDev == 0 - 1

\* the walk without the break value: zero for everything past the table
RECURSIVE ConfigWalk_NoBreak(_, _, _, _)
ConfigWalk_NoBreak(kids, i, addr, size) ==
    IF kids = <<>>
    THEN [dev |-> NoDev, val |-> ZERO]
    ELSE IF i = addr
         THEN [dev |-> Head(kids).id, val |-> ClassConfig(Head(kids))]
         ELSE ConfigWalk_NoBreak(Tail(kids), i + size, addr, size)

\* the walk that steps the running address before it compares
RECURSIVE ConfigWalk_IncFirst(_, _, _, _)
ConfigWalk_IncFirst(kids, i, addr, size) ==
    IF kids = <<>>
    THEN [dev |-> NoDev,
          val |-> IF i = addr THEN ZERO ELSE CFAM_CONFIG_CHIP_ID_BREAK]
    ELSE IF i + size = addr
         THEN [dev |-> Head(kids).id, val |-> ClassConfig(Head(kids))]
         ELSE ConfigWalk_IncFirst(Tail(kids), i + size, addr, size)

RECURSIVE ConfigWalk(_, _, _, _)
\* the default: branch: QTAILQ_FOREACH over the children with the running
\* address i, then the end marker, then the break value
ConfigWalk(kids, i, addr, size) ==
    IF kids = <<>>
    THEN [dev |-> NoDev,
          val |-> IF i = addr THEN ZERO ELSE CFAM_CONFIG_CHIP_ID_BREAK]
    ELSE IF i = addr
         THEN [dev |-> Head(kids).id, val |-> ClassConfig(Head(kids))]
         ELSE ConfigWalk(Tail(kids), i + size, addr, size)

\* the read with the two fixed descriptors exchanged
fsi_cfam_config_read_Swapped(kids, addr, size) ==
    CASE addr = 0 -> [dev |-> NoDev, val |-> CFAM_CONFIG_CHIP_ID_P9]
      [] addr = 4 -> [dev |-> NoDev, val |-> FsiConfig]
      [] addr = 8 -> [dev |-> NoDev, val |-> PeekConfig]
      [] OTHER -> ConfigWalk(kids, EngineTableBase, addr, size)

\* the result, and the child the walk stopped at (NoDev when none)
fsi_cfam_config_read(kids, addr, size) ==
    CASE addr = 0 -> [dev |-> NoDev, val |-> CFAM_CONFIG_CHIP_ID_P9]
      [] addr = 4 -> [dev |-> NoDev, val |-> PeekConfig]
      [] addr = 8 -> [dev |-> NoDev, val |-> FsiConfig]
      [] OTHER -> ConfigWalk(kids, EngineTableBase, addr, size)

\* the children as fsi_cfam_config_read leaves them: it assigns nothing
fsi_cfam_config_read_state(kids, addr, size) == kids

(***************************************************************************)
(* fsi_cfam_config_write                                                   *)
(***************************************************************************)
\* the case labels of switch (TO_REG(addr))
ConfigWriteCases == {CFAM_CONFIG_CHIP_ID, CFAM_CONFIG_CHIP_ID + 4}

\* whether the write calls bus_cold_reset
ConfigWriteResets(addr, data) ==
    /\ TO_REG(addr) \in ConfigWriteCases
    /\ data = CFAM_CONFIG_CHIP_ID_BREAK

\* the write that resets the first child alone (a device reset of one engine
\* in place of the reset of the bus)
fsi_cfam_config_write_HeadOnly(kids, addr, data) ==
    IF ConfigWriteResets(addr, data) /\ kids # <<>>
    THEN <<fsi_scratchpad_reset(Head(kids))>> \o Tail(kids)
    ELSE kids

\* the write whose reset puts the children back on the bus in reverse order
fsi_cfam_config_write_Reattach(kids, addr, data) ==
    IF ConfigWriteResets(addr, data)
    THEN [k \in 1..Len(kids) |-> fsi_scratchpad_reset(kids[Len(kids) + 1 - k])]
    ELSE kids

fsi_cfam_config_write(kids, addr, data) ==
    IF ConfigWriteResets(addr, data) THEN bus_cold_reset(kids) ELSE kids

(***************************************************************************)
(* fsi_cfam_unimplemented_read / fsi_cfam_unimplemented_write              *)
(***************************************************************************)
fsi_cfam_unimplemented_read(addr) == ZERO

\* the children as fsi_cfam_unimplemented_read leaves them
fsi_cfam_unimplemented_read_state(kids, addr) == kids

\* the fallback write acting on the break value as the config write does
fsi_cfam_unimplemented_write_Resets(kids, addr, data) ==
    IF data = CFAM_CONFIG_CHIP_ID_BREAK THEN bus_cold_reset(kids) ELSE kids

fsi_cfam_unimplemented_write(kids, addr, data) == kids

(***************************************************************************)
(* fsi_cfam_realize: the memory map.  A subregion is [region, base, size]; *)
(* cfam->mr keeps them in the order they were added.                       *)
(***************************************************************************)
Subregion(region, base, size) == [region |-> region, base |-> base, size |-> size]

\* the three memory_region_add_subregion calls on cfam->mr
RealizeSubregions ==
    << Subregion("config", ConfigBase, ConfigSize),
       Subregion("slave", SlaveBase, SlaveSize),
       Subregion("lbus", LBusBase, LBusSize) >>

\* the scratchpad mapped one window further up the lbus region
RealizeLBusSubregions_Shifted ==
    {[dev |-> 0, base |-> ScratchpadSize, size |-> ScratchpadSize]}

\* memory_region_add_subregion(&cfam->lbus.mr, 0, &fsi_dev->iomem), the
\* iomem being the one fsi_scratchpad_realize initialised for device 0
RealizeLBusSubregions ==
    {[dev |-> 0, base |-> ScratchpadLBusOffset, size |-> ScratchpadSize]}

\* object_initialize_child(obj, "scratchpad", ...): a zeroed instance
fsi_cfam_instance_init == Engine(0, ZERO)

Covers(r, off) == r.base <= off /\ off < r.base + r.size

\* the subregions of cfam->mr that hold off, as indices in adding order
MrHits(off) == {n \in 1..Len(mrSubregions) : Covers(mrSubregions[n], off)}

\* the engine windows of cfam->lbus.mr that hold the lbus offset a
LBusHits(a) == {w \in lbusSubregions : Covers(w, a)}

\* Where an access at CFAM offset off lands: the region, the offset inside
\* it, and the engine (NoDev when none).  Of equal-priority subregions the
\* one added last is on top; what no subregion claims, and what no engine
\* claims inside the lbus container, falls to cfam->mr's own ops.
Resolve(off) ==
    IF MrHits(off) = {}
    THEN [region |-> "unimplemented", addr |-> off, dev |-> NoDev]
    ELSE LET top == mrSubregions[CHOOSE n \in MrHits(off) :
                                   \A m \in MrHits(off) : m <= n]
             a == off - top.base
         IN  IF top.region # "lbus"
             THEN [region |-> top.region, addr |-> a, dev |-> NoDev]
             ELSE IF LBusHits(a) = {}
                  THEN [region |-> "unimplemented", addr |-> off, dev |-> NoDev]
                  ELSE LET w == CHOOSE w \in LBusHits(a) : TRUE
                       IN  [region |-> "scratchpad", addr |-> a - w.base,
                            dev |-> w.dev]

(***************************************************************************)
(* The record of the last access, and a summary of the one before it.      *)
(***************************************************************************)
Op(kind, region, off, addr, dev, data, ret, dirty, reset) ==
    [kind |-> kind, region |-> region, off |-> off, addr |-> addr, dev |-> dev,
     data |-> data, ret |-> ret, dirty |-> dirty, reset |-> reset]

NoOp == Op("none", "none", NoDev, NoDev, NoDev, ZERO, ZERO, FALSE, FALSE)

\* the access is the write of the break value to Configuration Region addr
IsBreakWrite(op, addr) ==
    /\ op.kind = "write" /\ op.region = "config" /\ op.addr = addr
    /\ op.data = CFAM_CONFIG_CHIP_ID_BREAK

Summary(op) == [break0 |-> IsBreakWrite(op, 0), dirty |-> op.dirty]

\* position of device id on the bus (0 when it is not attached)
PosOf(kids, id) ==
    IF \E k \in 1..Len(kids) : kids[k].id = id
    THEN CHOOSE k \in 1..Len(kids) : kids[k].id = id
    ELSE 0

\* the children with the child at position k replaced
WithChild(kids, k, kid) == [kids EXCEPT ![k] = kid]

(***************************************************************************)
(* Construction.                                                           *)
(***************************************************************************)
Init ==
    /\ phase = "init"
    /\ children = <<>>
    /\ mrSubregions = <<>>
    /\ lbusSubregions = {}
    /\ lastOp = NoOp
    /\ prevOp = Summary(NoOp)
    /\ lastWritten = <<>>

\* fsi_cfam_realize, qdev_realize_and_unref succeeding
Realize ==
    /\ phase = "init"
    /\ mrSubregions' = RealizeSubregions
    /\ children' = BusAddChild(children, fsi_cfam_instance_init)
    /\ lbusSubregions' = RealizeLBusSubregions
    /\ lastWritten' = <<ZERO>>
    /\ phase' = "construct"
    /\ UNCHANGED <<lastOp, prevOp>>

\* the failing realize without its early return: the scratchpad window is
\* mapped although the error is set
RealizeFail_NoReturn ==
    /\ phase = "init"
    /\ mrSubregions' = RealizeSubregions
    /\ children' = BusAddChild(children, fsi_cfam_instance_init)
    /\ lastWritten' = <<ZERO>>
    /\ lbusSubregions' = RealizeLBusSubregions
    /\ phase' = "failed"
    /\ UNCHANGED <<lastOp, prevOp>>

\* fsi_cfam_realize, qdev_realize_and_unref failing: the early return.  The
\* scratchpad may or may not have been put on the bus before the failure.
RealizeFail ==
    /\ phase = "init"
    /\ mrSubregions' = RealizeSubregions
    /\ \E attached \in BOOLEAN :
          /\ children' = IF attached
                         THEN BusAddChild(children, fsi_cfam_instance_init)
                         ELSE children
          /\ lastWritten' = IF attached THEN <<ZERO>> ELSE <<>>
    /\ phase' = "failed"
    /\ UNCHANGED <<lbusSubregions, lastOp, prevOp>>

\* one more scratchpad engine is realized on cfam->lbus while the machine is
\* being built
AttachEngine ==
    /\ phase = "construct"
    /\ Len(children) < MaxEngines
    /\ children' = BusAddChild(children, Engine(Len(children), ZERO))
    /\ lastWritten' = Append(lastWritten, ZERO)
    /\ UNCHANGED <<phase, mrSubregions, lbusSubregions, lastOp, prevOp>>

\* the machine is built; the bus master starts issuing accesses
MachineReady ==
    /\ phase = "construct"
    /\ phase' = "running"
    /\ UNCHANGED <<children, mrSubregions, lbusSubregions, lastOp, prevOp,
                   lastWritten>>

(***************************************************************************)
(* Accesses.                                                               *)
(***************************************************************************)
\* a read of engine id's window at addr
ScratchpadReadOp(off, id, addr) ==
    Op("read", "scratchpad", off, addr, id, ZERO,
       fsi_scratchpad_read(children[PosOf(children, id)], addr),
       Dirty(children), FALSE)

\* the children after a read of engine id's window at addr
ScratchpadReadEffect(id, addr) ==
    LET k == PosOf(children, id)
    IN  children' = WithChild(children, k,
                              fsi_scratchpad_read_state(children[k], addr))

\* a read through cfam->as at offset off
CfamRead(off) ==
    /\ phase = "running"
    /\ LET t == Resolve(off)
       IN  CASE t.region = "config" ->
                  LET r == fsi_cfam_config_read(children, t.addr, ConfigAccessSize)
                  IN  /\ lastOp' = Op("read", "config", off, t.addr, r.dev,
                                      ZERO, r.val, Dirty(children), FALSE)
                      /\ children' = fsi_cfam_config_read_state(
                                         children, t.addr, ConfigAccessSize)
             [] t.region = "scratchpad" ->
                  /\ lastOp' = ScratchpadReadOp(off, t.dev, t.addr)
                  /\ ScratchpadReadEffect(t.dev, t.addr)
             [] t.region = "slave" ->
                  /\ \E v \in Data :
                        lastOp' = Op("read", "slave", off, t.addr, NoDev, ZERO,
                                     v, Dirty(children), FALSE)
                  /\ UNCHANGED children
             [] OTHER ->
                  /\ lastOp' = Op("read", "unimplemented", off, t.addr, NoDev,
                                  ZERO, fsi_cfam_unimplemented_read(t.addr),
                                  Dirty(children), FALSE)
                  /\ children' = fsi_cfam_unimplemented_read_state(children,
                                                                    t.addr)
    /\ prevOp' = Summary(lastOp)
    /\ UNCHANGED <<phase, mrSubregions, lbusSubregions, lastWritten>>

\* the effect of a write of engine id's window at addr
ScratchpadWriteEffect(off, id, addr, data) ==
    LET k == PosOf(children, id)
    IN  /\ children' = WithChild(children, k,
                                 fsi_scratchpad_write(children[k], addr, data))
        /\ lastWritten' = IF addr = 0
                          THEN [lastWritten EXCEPT ![id + 1] = data]
                          ELSE lastWritten
        /\ lastOp' = Op("write", "scratchpad", off, addr, id, data, ZERO,
                        Dirty(children), FALSE)

\* a write through cfam->as at offset off
CfamWrite(off, data) ==
    /\ phase = "running"
    /\ LET t == Resolve(off)
       IN  CASE t.region = "config" ->
                  /\ children' = fsi_cfam_config_write(children, t.addr, data)
                  /\ lastWritten' =
                        IF ConfigWriteResets(t.addr, data)
                        THEN [k \in 1..Len(lastWritten) |-> ZERO]
                        ELSE lastWritten
                  /\ lastOp' = Op("write", "config", off, t.addr, NoDev, data,
                                  ZERO, Dirty(children),
                                  ConfigWriteResets(t.addr, data))
             [] t.region = "scratchpad" ->
                  ScratchpadWriteEffect(off, t.dev, t.addr, data)
             [] t.region = "slave" ->
                  /\ lastOp' = Op("write", "slave", off, t.addr, NoDev, data,
                                  ZERO, Dirty(children), FALSE)
                  /\ UNCHANGED <<children, lastWritten>>
             [] OTHER ->
                  /\ children' = fsi_cfam_unimplemented_write(children, t.addr, data)
                  /\ lastOp' = Op("write", "unimplemented", off, t.addr, NoDev,
                                  data, ZERO, Dirty(children), FALSE)
                  /\ UNCHANGED lastWritten
    /\ prevOp' = Summary(lastOp)
    /\ UNCHANGED <<phase, mrSubregions, lbusSubregions>>

\* a read of the iomem of the engine at position k, wherever it is mapped
EngineRead(k, addr) ==
    /\ phase = "running"
    /\ k \in 1..Len(children)
    /\ lastOp' = ScratchpadReadOp(NoDev, children[k].id, addr)
    /\ ScratchpadReadEffect(children[k].id, addr)
    /\ prevOp' = Summary(lastOp)
    /\ UNCHANGED <<phase, mrSubregions, lbusSubregions, lastWritten>>

\* a write of the iomem of the engine at position k, wherever it is mapped
EngineWrite(k, addr, data) ==
    /\ phase = "running"
    /\ k \in 1..Len(children)
    /\ ScratchpadWriteEffect(NoDev, children[k].id, addr, data)
    /\ prevOp' = Summary(lastOp)
    /\ UNCHANGED <<phase, mrSubregions, lbusSubregions>>

\* a reset of the local bus that no register write asked for (machine reset)
BusReset ==
    /\ phase = "running"
    /\ children' = bus_cold_reset(children)
    /\ lastWritten' = [k \in 1..Len(lastWritten) |-> ZERO]
    /\ lastOp' = Op("reset", "none", NoDev, NoDev, NoDev, ZERO, ZERO,
                    Dirty(children), TRUE)
    /\ prevOp' = Summary(lastOp)
    /\ UNCHANGED <<phase, mrSubregions, lbusSubregions>>

Next ==
    \/ Realize
    \/ RealizeFail
    \/ AttachEngine
    \/ MachineReady
    \/ \E off \in CfamOffsets : CfamRead(off)
    \/ \E off \in CfamOffsets, data \in Data : CfamWrite(off, data)
    \/ \E k \in 1..MaxEngines, addr \in ScratchpadAddrs : EngineRead(k, addr)
    \/ \E k \in 1..MaxEngines, addr \in ScratchpadAddrs, data \in Data :
          EngineWrite(k, addr, data)
    \/ BusReset

Spec == Init /\ [][Next]_vars

(***************************************************************************)
(* Properties.                                                             *)
(***************************************************************************)
ConfigReadOp(op) == op.kind = "read" /\ op.region = "config"

ConfigWriteOp(op) == op.kind = "write" /\ op.region = "config"

ScratchpadRegRead(op) ==
    op.kind = "read" /\ op.region = "scratchpad" /\ op.addr = 0

AllReset(kids) == \A k \in 1..Len(kids) : kids[k].reg = ZERO

\* C1: a write of the break value 0xc0de0000 to Configuration Region address
\* 0x04 cold-resets the local bus, as the same write at 0x00 does: after it
\* every attached engine's register is 0.
C1_BreakWriteAt04Resets ==
    [][IsBreakWrite(lastOp', 4) => AllReset(children')]_vars

\* C2: a Configuration Region write changes nothing unless its address is
\* 0x00 or 0x04 and its data is the break value; in particular a break-value
\* write at 0x0C or 0x10 does not reset the bus.
C2_OtherConfigWritesInert ==
    [][(ConfigWriteOp(lastOp')
        /\ ~(lastOp'.addr \in {0, 4}
             /\ lastOp'.data = CFAM_CONFIG_CHIP_ID_BREAK))
       => children' = children]_vars

\* C3: with N engines attached, a Configuration Region read at 0x0C + 4*N
\* returns 0, and a read at any other aligned address from 0x0C up that is
\* no engine slot returns the break value 0xc0de0000; with the bootstrap
\* scratchpad alone, 0x0C is its descriptor, 0x10 is 0 and 0x14 and up are
\* the break value.
C3_EndMarkerThenBreak ==
    (ConfigReadOp(lastOp) /\ lastOp.addr >= 12) =>
        LET N == Len(children)
            a == lastOp.addr
        IN  /\ (a = 12 + 4 * N) => lastOp.ret = ZERO
            /\ (a > 12 + 4 * N) => lastOp.ret = <<49374, 0>>
            /\ (N = 1 /\ a = 12) => lastOp.ret = ScratchpadConfig
            /\ (N = 1 /\ a = 16) => lastOp.ret = ZERO
            /\ (N = 1 /\ a >= 20) => lastOp.ret = <<49374, 0>>

C3_Witness ==
    /\ ConfigReadOp(lastOp)
    /\ Len(children) = 1
    /\ lastOp.addr = 20
    /\ lastOp.ret = CFAM_CONFIG_CHIP_ID_BREAK

\* C4: the engine slots follow the order of attachment with stride 4 from
\* 0x0C: the read at 0x0C + 4*k returns the class descriptor of the k-th
\* engine attached (device k).
C4_SlotsInAttachOrder ==
    \A k \in 0..(Len(children) - 1) :
        (ConfigReadOp(lastOp) /\ lastOp.addr = 12 + 4 * k) =>
            /\ lastOp.dev = k
            /\ children[k + 1].id = k
            /\ lastOp.ret = ClassConfig(children[k + 1])

C4_Witness ==
    /\ ConfigReadOp(lastOp)
    /\ Len(children) = 2
    /\ lastOp.addr = 16
    /\ lastOp.dev = 1

\* C5: in every reachable state the Configuration Region reads 0xc0022d15
\* at 0x00, 0x8001102c at 0x04 and 0x8001503a at 0x08.
C5_FixedWords ==
    ConfigReadOp(lastOp) =>
        /\ (lastOp.addr = 0) => lastOp.ret = <<49154, 11541>>
        /\ (lastOp.addr = 4) => lastOp.ret = <<32769, 4140>>
        /\ (lastOp.addr = 8) => lastOp.ret = <<32769, 20538>>

C5_Witness ==
    /\ ConfigReadOp(lastOp)
    /\ lastOp.addr = 8
    /\ prevOp.break0
    /\ prevOp.dirty

\* C6: the read of a scratchpad's register that directly follows the write
\* of the break value to Configuration Region address 0x00 returns 0,
\* whatever the register held before.
C6_BreakWriteThenReadZero ==
    (ScratchpadRegRead(lastOp) /\ prevOp.break0) => lastOp.ret = ZERO

C6_Witness ==
    /\ ScratchpadRegRead(lastOp)
    /\ lastOp.off = LBusBase
    /\ prevOp.break0
    /\ prevOp.dirty
    /\ lastOp.ret = ZERO

\* C7: a read of a scratchpad's register returns the data of the latest
\* write to its offset 0 that no bus reset followed, and 0 when there is
\* none.
C7_ScratchpadRoundTrip ==
    ScratchpadRegRead(lastOp) =>
        lastOp.ret = lastWritten[lastOp.dev + 1]

C7_Witness ==
    /\ ScratchpadRegRead(lastOp)
    /\ lastOp.ret = CFAM_CONFIG_CHIP_ID_BREAK
    /\ lastWritten[lastOp.dev + 1] = CFAM_CONFIG_CHIP_ID_BREAK

\* C8: the write of the break value to 0x00 issued directly after the same
\* write leaves every engine register and the engine list as they were.
C8_BreakWriteIdempotent ==
    [][(IsBreakWrite(lastOp, 0) /\ IsBreakWrite(lastOp', 0))
       => children' = children]_vars

C8_Witness ==
    /\ IsBreakWrite(lastOp, 0)
    /\ prevOp.break0
    /\ prevOp.dirty
    /\ Len(children) = 2

\* the offsets the Configuration Region, the primary-slave window and the
\* local bus region claim
Claimed(off) ==
    \/ 0 <= off /\ off < 1024
    \/ 2048 <= off /\ off < 2048 + SlaveSize
    \/ 3072 <= off /\ off < 3072 + LBusSize

\* C9: at every offset of the CFAM address space that none of the three
\* regions claims, a read returns 0 and a write of any data leaves the
\* engine registers, the engine list and the memory map unchanged.
C9_UnclaimedInert ==
    [][(lastOp'.kind \in {"read", "write"} /\ lastOp'.off >= 0
        /\ ~Claimed(lastOp'.off))
       => /\ (lastOp'.kind = "read") => lastOp'.ret = ZERO
          /\ children' = children
          /\ mrSubregions' = mrSubregions
          /\ lbusSubregions' = lbusSubregions]_vars

C9_Witness ==
    /\ lastOp.kind = "write"
    /\ lastOp.off = 1024
    /\ lastOp.data = CFAM_CONFIG_CHIP_ID_BREAK
    /\ lastOp.dirty
    /\ Dirty(children)

\* no two subregions of cfam->mr share an offset
NoOverlap ==
    \A m, n \in 1..Len(mrSubregions) :
        m # n =>
            \/ mrSubregions[m].base + mrSubregions[m].size <= mrSubregions[n].base
            \/ mrSubregions[n].base + mrSubregions[n].size <= mrSubregions[m].base

\* C10: construction attaches exactly one scratchpad; from then on an access
\* at 0xC00 + d (d < 0x400) goes to that scratchpad with offset d, an access
\* at a < 0x400 goes to the Configuration Region with offset a, and the
\* subregions at 0x000, 0x800 and 0xC00 do not overlap.
C10_ConstructionMap ==
    /\ [][(phase = "init" /\ phase' = "construct")
          => (Len(children') = 1 /\ children'[1] = Engine(0, ZERO))]_vars
    /\ [](phase \in {"construct", "running"} =>
            /\ \A off \in CfamOffsets :
                  /\ (3072 <= off /\ off < 3072 + 1024) =>
                        Resolve(off) = [region |-> "scratchpad",
                                        addr |-> off - 3072, dev |-> 0]
                  /\ (0 <= off /\ off < 1024) =>
                        Resolve(off) = [region |-> "config", addr |-> off,
                                        dev |-> NoDev]
            /\ Len(mrSubregions) = 3
            /\ {mrSubregions[n].base : n \in 1..3} = {0, 2048, 3072}
            /\ NoOverlap)

C10_Witness ==
    /\ phase = "running"
    /\ lastOp.kind = "write"
    /\ lastOp.off = 3072 + 4
    /\ lastOp.region = "scratchpad"
    /\ lastOp.addr = 4
    /\ lastOp.dev = 0

\* C11: inside a scratchpad's window an access at an offset other than 0 is
\* inert: the read returns 0 whatever the register holds, and the write, with
\* any data, leaves the register as it was.
C11_NonZeroOffsetInert ==
    [][(lastOp'.region = "scratchpad" /\ lastOp'.addr # 0)
       => /\ (lastOp'.kind = "read") => lastOp'.ret = ZERO
          /\ children' = children]_vars

C11_Witness ==
    /\ lastOp.kind = "read"
    /\ lastOp.region = "scratchpad"
    /\ lastOp.addr = 4
    /\ lastOp.ret = ZERO
    /\ children[PosOf(children, lastOp.dev)].reg = CFAM_CONFIG_CHIP_ID_BREAK

\* the devices on the bus, head first
Ids(kids) == [k \in 1..Len(kids) |-> kids[k].id]

\* C12: once the machine is built no read, write or cold reset adds, removes
\* or reorders the attached engines or changes the memory map; only engine
\* registers change, so a Configuration Region read at a given address
\* returns the same value before and after every access.
C12_EngineListReadOnly ==
    [][(phase = "running")
       => /\ Ids(children') = Ids(children)
          /\ mrSubregions' = mrSubregions
          /\ lbusSubregions' = lbusSubregions
          /\ \A a \in ConfigAddrs :
                fsi_cfam_config_read(children', a, ConfigAccessSize).val
                = fsi_cfam_config_read(children, a, ConfigAccessSize).val]_vars

C12_Witness ==
    /\ phase = "running"
    /\ lastOp.kind = "write"
    /\ lastOp.reset
    /\ lastOp.dirty
    /\ Ids(children) = <<0, 1>>

\* C13: the break-value write resets every attached engine in the one step:
\* after an access that reset the bus every engine register is 0, and they
\* all stay 0 until the next write to an engine.
C13_ResetAtomic ==
    /\ [](lastOp.reset => AllReset(children))
    /\ [][(AllReset(children)
           /\ ~(lastOp'.kind = "write" /\ lastOp'.region = "scratchpad"))
          => AllReset(children')]_vars

C13_Witness ==
    /\ IsBreakWrite(lastOp, 0)
    /\ lastOp.reset
    /\ lastOp.dirty
    /\ Len(children) = 2
    /\ lastWritten = <<ZERO, ZERO>>
    /\ ~prevOp.break0

\* C14: when the realize of the bootstrap scratchpad fails, construction
\* ends failed and stays so: the hub never serves an access, and no
\* scratchpad window is mapped into the local bus region.
C14_RealizeFailureAborts ==
    /\ [](phase = "failed" =>
            /\ lbusSubregions = {}
            /\ \A off \in CfamOffsets : Resolve(off).region # "scratchpad"
            /\ lastOp = NoOp)
    /\ [][(phase = "failed") => (phase' = "failed")]_vars

C14_Witness ==
    /\ phase = "failed"
    /\ Len(children) = 1
    /\ lbusSubregions = {}

\* C15: a read of the Configuration Region, of a scratchpad window or of
\* unmapped CFAM space changes no engine register, not the engine list and
\* not the memory map.
C15_ReadsPure ==
    [][(lastOp'.kind = "read"
        /\ lastOp'.region \in {"config", "scratchpad", "unimplemented"})
       => /\ children' = children
          /\ mrSubregions' = mrSubregions
          /\ lbusSubregions' = lbusSubregions
          /\ lastWritten' = lastWritten]_vars

C15_Witness ==
    /\ lastOp.kind = "read"
    /\ lastOp.region = "scratchpad"
    /\ lastOp.addr = 0
    /\ lastOp.ret = Lo(1)
    /\ children[PosOf(children, lastOp.dev)].reg = Lo(1)

\* bit 31 (0x80000000) of a word is set
HasNext(w) == w[1] >= 32768

\* C16: with N scratchpad engines attached, the words at 0x04, 0x08 and at
\* every engine slot 0x0C + 4*k (k < N) are non-zero, have bit 31 set and
\* are not the break value; the word at 0x0C + 4*N is 0, the first one on
\* the way up from 0x04 without bit 31.
C16_ChainWellFormed ==
    (phase = "running") =>
        LET N == Len(children)
            rd(a) == fsi_cfam_config_read(children, a, ConfigAccessSize).val
        IN  /\ \A k \in 1..(N + 2) :
                  /\ rd(4 * k) # ZERO
                  /\ HasNext(rd(4 * k))
                  /\ rd(4 * k) # <<49374, 0>>
            /\ rd(12 + 4 * N) = ZERO
            /\ (ConfigReadOp(lastOp) /\ lastOp.addr >= 4
                /\ lastOp.addr <= 12 + 4 * N)
               => /\ lastOp.ret # <<49374, 0>>
                  /\ HasNext(lastOp.ret) <=> (lastOp.addr < 12 + 4 * N)
                  /\ (lastOp.ret = ZERO) <=> (lastOp.addr = 12 + 4 * N)

C16_Witness ==
    /\ ConfigReadOp(lastOp)
    /\ Len(children) = 2
    /\ lastOp.addr = 20
    /\ lastOp.ret = ZERO
    /\ HasNext(fsi_cfam_config_read(children, 16, ConfigAccessSize).val)

====
